---- MODULE Spec2Model ----
(***************************************************************************)
(* The kraber language: the tree-walking interpreter (Interpreter::         *)
(* interpret, eval_expression, loop_while, filter_memory, the intrinsics)   *)
(* and the parser (Parser::parse, build_tree, build_expression) of          *)
(* src/src/main.rs.                                                         *)
(***************************************************************************)
EXTENDS Integers, Sequences, FiniteSets, TLC

\* ------------------------------------------------------------------ bounds
\* Width in bits of usize and isize in the model (the build has 64).
WordBits == 4
\* Number of statements of a top-level program with calls and loops.
MaxMain == 5
\* Number of statements of a top-level program of declarations and casts.
MaxCast == 3
\* Largest literal loop bound n of `while lt(i n)`.
MaxLoop == 2
\* Number of statements of a program text, those of the bodies counted.
MaxSource == 3
MaxFactors == 3
\* Number of statements of a program text main reads before it parses.
MaxRead == 2

USIZE_MAX == 2^WordBits - 1
ISIZE_MAX == 2^(WordBits - 1) - 1
ISIZE_MIN == 0 - 2^(WordBits - 1)

\* ------------------------------------------------------------- f64 values
\* A float is an exact fraction <<numerator, denominator>> in lowest terms.
RECURSIVE Gcd(_, _)
Gcd(a, b) == IF b = 0 THEN a ELSE Gcd(b, a % b)

Abs(n) == IF n < 0 THEN 0 - n ELSE n

Ratio(n, d) ==
    LET g == Gcd(Abs(n), d) IN <<n \div g, d \div g>>

FAdd(a, b) == Ratio(a[1] * b[2] + b[1] * a[2], a[2] * b[2])
FMul(a, b) == Ratio(a[1] * b[1], a[2] * b[2])
FLess(a, b) == a[1] * b[2] < b[1] * a[2]
\* Truncation toward zero of a fraction.
FTrunc(a) == IF a[1] < 0 THEN 0 - ((0 - a[1]) \div a[2]) ELSE a[1] \div a[2]

Clamp(n, lo, hi) == IF n < lo THEN lo ELSE IF n > hi THEN hi ELSE n

\* A `float as usize` that wraps around instead of saturating.
FloatAsUsizeWrapping(a) == FTrunc(a) % 2^WordBits

\* `float as usize` and `float as isize`: truncate, then saturate.
FloatAsUsize(a) == Clamp(FTrunc(a), 0, USIZE_MAX)
FloatAsIsize(a) == Clamp(FTrunc(a), ISIZE_MIN, ISIZE_MAX)
\* `whole as isize`: reinterpretation of the bits.
UsizeAsIsize(v) == IF v > ISIZE_MAX THEN v - 2^WordBits ELSE v
\* `integer as usize`: reinterpretation of the bits.
IsizeAsUsize(v) == IF v < 0 THEN v + 2^WordBits ELSE v
\* `value as f64` of a usize or isize.
IntAsF64(v) == <<v, 1>>

\* --------------------------------------------------------------- enum Data
Main == [tag |-> "Main"]
Declare == [tag |-> "Declare"]
Assign == [tag |-> "Assign"]
While == [tag |-> "While"]
Expression == [tag |-> "Expression"]
Return == [tag |-> "Return"]
Null == [tag |-> "Null"]
Identifier(name) == [tag |-> "Identifier", name |-> name]
Type(name) == [tag |-> "Type", name |-> name]
\* The value field of a literal holds the Rust type of the variant with it.
Whole(v) == [tag |-> "Whole", value |-> [usize |-> v]]
Integer(v) == [tag |-> "Integer", value |-> [isize |-> v]]
Float(n, d) == [tag |-> "Float", value |-> [f64 |-> Ratio(n, d)]]
FloatOf(r) == [tag |-> "Float", value |-> [f64 |-> r]]
Boolean(b) == [tag |-> "Boolean", value |-> [bool |-> b]]
Text(s) == [tag |-> "Text", value |-> [string |-> s]]
List(data_types, value) ==
    [tag |-> "List", data_types |-> data_types, value |-> value]
KraberFunction(body) == [tag |-> "KraberFunction", body |-> body]
FunctionContainer(params, param_types, return_types) ==
    [tag |-> "FunctionContainer", params |-> params,
     param_types |-> param_types, return_types |-> return_types]
Function(params, param_types, return_types, body) ==
    [tag |-> "Function", params |-> params, param_types |-> param_types,
     return_types |-> return_types, body |-> body]

\* The outcome of a panic!, an unwrap() of None or an index out of range.
PANIC == [tag |-> "panic!"]
Panicked(d) == d.tag = "panic!"

\* str::to_lowercase on the variant names of Data.
ToLowercase(s) ==
    CASE s = "Main" -> "main"
      [] s = "Declare" -> "declare"
      [] s = "Assign" -> "assign"
      [] s = "While" -> "while"
      [] s = "Expression" -> "expression"
      [] s = "KraberFunction" -> "kraberfunction"
      [] s = "FunctionContainer" -> "functioncontainer"
      [] s = "Function" -> "function"
      [] s = "Return" -> "return"
      [] s = "Identifier" -> "identifier"
      [] s = "Type" -> "type"
      [] s = "Null" -> "null"
      [] s = "Whole" -> "whole"
      [] s = "Integer" -> "integer"
      [] s = "Float" -> "float"
      [] s = "Boolean" -> "boolean"
      [] s = "Text" -> "text"
      [] s = "List" -> "list"

\* The first word of the Debug rendering of the value, in lower case.
stringify_enum(data) == ToLowercase(data.tag)

\* ------------------------------------------------------------- struct Node
\* Children carry the position they were inserted at as their id.
Kids(seq) == [k \in 1..Len(seq) |-> [seq[k] EXCEPT !.id = k - 1]]
Node(data, nodes) == [id |-> 0, data |-> data, nodes |-> Kids(nodes)]
Leaf(data) == Node(data, <<>>)

\* --------------------------------------------------------- the intrinsics
IsNumeric(arg) == arg.tag \in {"Whole", "Integer", "Float"}

\* expect_numeric, for a numeric argument.
expect_numeric(arg) ==
    CASE arg.tag = "Whole" -> IntAsF64(arg.value.usize)
      [] arg.tag = "Integer" -> IntAsF64(arg.value.isize)
      [] arg.tag = "Float" -> arg.value.f64

RECURSIVE EqualFrom(_, _)
EqualFrom(args, k) ==
    IF k >= Len(args) THEN Boolean(TRUE)
    ELSE IF ~IsNumeric(args[k]) \/ ~IsNumeric(args[k + 1]) THEN PANIC
    ELSE IF expect_numeric(args[k]) = expect_numeric(args[k + 1])
         THEN EqualFrom(args, k + 1)
         ELSE Boolean(FALSE)

equal(args) == EqualFrom(args, 1)

\* A comparison that also holds of equal arguments.
le(args) ==
    IF Len(args) # 2 THEN PANIC
    ELSE IF ~IsNumeric(args[1]) \/ ~IsNumeric(args[2]) THEN PANIC
    ELSE Boolean(~FLess(expect_numeric(args[2]), expect_numeric(args[1])))

lt(args) ==
    IF Len(args) # 2 THEN PANIC
    ELSE IF ~IsNumeric(args[1]) \/ ~IsNumeric(args[2]) THEN PANIC
    ELSE Boolean(FLess(expect_numeric(args[1]), expect_numeric(args[2])))

nand(args) ==
    IF Len(args) # 2 THEN PANIC
    ELSE IF args[1].tag # "Boolean" THEN PANIC
    ELSE IF ~args[1].value.bool THEN Boolean(TRUE)
    ELSE IF args[2].tag # "Boolean" THEN PANIC
    ELSE Boolean(~args[2].value.bool)

RECURSIVE AddFrom(_, _, _)
AddFrom(args, k, sum) ==
    IF k > Len(args) THEN FloatOf(sum)
    ELSE IF ~IsNumeric(args[k]) THEN PANIC
    ELSE AddFrom(args, k + 1, FAdd(sum, expect_numeric(args[k])))

add(args) == AddFrom(args, 1, <<0, 1>>)

RECURSIVE Repeat(_, _)
Repeat(s, n) == IF n = 0 THEN "" ELSE s \o Repeat(s, n - 1)

RECURSIVE MultiplyFrom(_, _, _, _)
MultiplyFrom(args, k, text_string, product) ==
    IF k > Len(args)
    THEN IF text_string = "" THEN FloatOf(product)
         ELSE Text(Repeat(text_string, FloatAsUsize(product)))
    ELSE IF text_string = "" /\ args[k].tag = "Text"
         THEN MultiplyFrom(args, k + 1, args[k].value.string, product)
    ELSE IF ~IsNumeric(args[k]) THEN PANIC
    ELSE MultiplyFrom(args, k + 1, text_string,
                      FMul(product, expect_numeric(args[k])))

multiply(args) == MultiplyFrom(args, 1, "", <<1, 1>>)

RECURSIVE Power(_, _)
Power(a, n) == IF n = 0 THEN <<1, 1>> ELSE FMul(a, Power(a, n - 1))

\* f64::powf, for an exponent that is a natural number.
raise(args) ==
    IF Len(args) # 2 THEN PANIC
    ELSE IF ~IsNumeric(args[1]) \/ ~IsNumeric(args[2]) THEN PANIC
    ELSE FloatOf(Power(expect_numeric(args[1]), FTrunc(expect_numeric(args[2]))))

floor(args) ==
    IF Len(args) # 1 THEN PANIC
    ELSE IF ~IsNumeric(args[1]) THEN PANIC
    ELSE Integer(FloatAsIsize(expect_numeric(args[1])))

RECURSIVE JoinFrom(_, _, _)
JoinFrom(args, k, text_string) ==
    IF k > Len(args) THEN Text(text_string)
    ELSE IF args[k].tag # "Text" THEN PANIC
    ELSE JoinFrom(args, k + 1, text_string \o args[k].value.string)

join(args) == JoinFrom(args, 1, "")

\* A push that does not look at the type of the value.
PushUntyped(args) ==
    IF Len(args) < 2 THEN PANIC
    ELSE IF args[1].tag # "List" THEN PANIC
    ELSE List(args[1].data_types, Append(args[1].value, args[2]))

\* A push at the front of the list.
PushFront(args) ==
    IF Len(args) < 2 THEN PANIC
    ELSE IF args[1].tag # "List" THEN PANIC
    ELSE IF stringify_enum(args[2]) \notin
              {args[1].data_types[k].name : k \in 1..Len(args[1].data_types)}
         THEN PANIC
    ELSE List(args[1].data_types, <<args[2]>> \o args[1].value)

push(args) ==
    IF Len(args) < 1 THEN PANIC
    ELSE IF args[1].tag # "List" THEN PANIC
    ELSE IF \E k \in 1..Len(args[1].data_types) :
                args[1].data_types[k].tag # "Type" THEN PANIC
    ELSE IF Len(args) < 2 THEN PANIC
    ELSE IF stringify_enum(args[2]) \notin
              {args[1].data_types[k].name : k \in 1..Len(args[1].data_types)}
         THEN PANIC
    ELSE List(args[1].data_types, Append(args[1].value, args[2]))

\* The call body(args) of a KraberFunction.
Apply(body, args) ==
    CASE body = "equal" -> equal(args)
      [] body = "lt" -> lt(args)
      [] body = "nand" -> nand(args)
      [] body = "add" -> add(args)
      [] body = "multiply" -> multiply(args)
      [] body = "raise" -> raise(args)
      [] body = "floor" -> floor(args)
      [] body = "join" -> join(args)
      [] body = "push" -> push(args)

\* ---------------------------------------------------- Assign: the casts
\* A match on expression_value that casts a negative number to whole as
\* Rust's `as` does, and stores a value of any other type as it is.
CastUnchecked(name, expression_value) ==
    CASE expression_value.tag = "Float" /\ name = "whole" ->
           Whole(FloatAsUsize(expression_value.value.f64))
      [] expression_value.tag = "Float" /\ name = "integer" ->
           Integer(FloatAsIsize(expression_value.value.f64))
      [] expression_value.tag = "Integer" /\ name = "whole" ->
           Whole(IsizeAsUsize(expression_value.value.isize))
      [] expression_value.tag = "Integer" /\ name = "float" ->
           FloatOf(IntAsF64(expression_value.value.isize))
      [] expression_value.tag = "Whole" /\ name = "integer" ->
           Integer(UsizeAsIsize(expression_value.value.usize))
      [] expression_value.tag = "Whole" /\ name = "float" ->
           FloatOf(IntAsF64(expression_value.value.usize))
      [] OTHER -> expression_value

\* The match on expression_value of an Assign whose declared type `name`
\* differs from the type tag of the value.
Cast(name, expression_value) ==
    CASE expression_value.tag = "Float" ->
           (CASE name = "whole" ->
                   IF FLess(expression_value.value.f64, <<0, 1>>) THEN PANIC
                   ELSE Whole(FloatAsUsize(expression_value.value.f64))
              [] name = "integer" ->
                   Integer(FloatAsIsize(expression_value.value.f64))
              [] OTHER -> PANIC)
      [] expression_value.tag = "Integer" ->
           (CASE name = "whole" ->
                   IF expression_value.value.isize < 0 THEN PANIC
                   ELSE Whole(IsizeAsUsize(expression_value.value.isize))
              [] name = "float" ->
                   FloatOf(IntAsF64(expression_value.value.isize))
              [] OTHER -> PANIC)
      [] expression_value.tag = "Whole" ->
           (CASE name = "integer" ->
                   Integer(UsizeAsIsize(expression_value.value.usize))
              [] name = "float" ->
                   FloatOf(IntAsF64(expression_value.value.usize))
              [] OTHER -> PANIC)
      [] OTHER -> PANIC

\* An Assign that does not compare the element types of two lists.
CoerceAnyList(variable, expression_value) ==
    LET data_type == variable.data_type
        type_name == stringify_enum(expression_value)
    IN  IF data_type.tag # "Type" THEN PANIC
        ELSE IF data_type.name # type_name
             THEN Cast(data_type.name, expression_value)
        ELSE expression_value

\* The value an Assign stores for the variable read before the evaluation,
\* or PANIC.
Coerce(variable, expression_value) ==
    LET data_type == variable.data_type
        type_name == stringify_enum(expression_value)
    IN  IF data_type.tag # "Type" THEN PANIC
        ELSE IF data_type.name # type_name
             THEN Cast(data_type.name, expression_value)
        ELSE IF data_type.name = "list"
             THEN IF variable.value.tag # "List" THEN PANIC
                  ELSE IF expression_value.tag # "List" THEN PANIC
                  ELSE IF variable.value.data_types # expression_value.data_types
                       THEN PANIC
                  ELSE expression_value
        ELSE expression_value

\* ------------------------------------------------------------------ Memory
Variable(value, data_type) == [value |-> value, data_type |-> data_type]

\* HashMap::insert
Insert(memory, name, variable) == (name :> variable) @@ memory

\* HashMap::remove
Remove(memory, name) == [k \in DOMAIN memory \ {name} |-> memory[k]]

Intrinsics ==
    {"equal", "lt", "nand", "add", "multiply", "raise", "floor", "join", "push"}

\* Interpreter::init_memory on the empty map.
init_memory ==
    [name \in Intrinsics |->
        Variable(KraberFunction(name), Type("kraberfunction"))]

\* Interpreter::filter_memory
filter_memory(memory, locals) ==
    [k \in DOMAIN memory \ {locals[j] : j \in 1..Len(locals)} |-> memory[k]]

\* ------------------------------------------------------ the AST of a program
\* The trees Parser::parse builds for the statements of the language.
DeclareStmt(name, type) ==
    Node(Declare, <<Leaf(Identifier(name)), Leaf(Type(type))>>)
DeclareList(name, types) ==
    Node(Declare, <<Leaf(Identifier(name)),
                    Node(Type("list"),
                         [k \in 1..Len(types) |-> Leaf(Type(types[k]))])>>)
AssignStmt(name, value) == Node(Assign, <<Leaf(Identifier(name)), value>>)
Call(name, arguments) == Node(Identifier(name), arguments)
Ref(name) == Leaf(Identifier(name))
WhileStmt(guard, body) ==
    Node(While, <<Node(Expression, <<guard>>)>> \o body)
ReturnStmt(value) == Node(Return, <<value>>)
FunLiteral(params, param_types, return_type, body) ==
    Node(FunctionContainer(params,
                           [k \in 1..Len(param_types) |-> Type(param_types[k])],
                           <<Type(return_type)>>),
         body)

\* ------------------------------------------------------------------- state
VARIABLES
    family,     \* the family of programs the top-level statements are drawn from
    nmain,      \* the number of top-level statements dispatched so far
    interps,    \* the live Interpreter objects, the top-level one first
    ctl,        \* the call stack of interpret, eval_expression and loop_while
    result,     \* the value the call that returned last handed to its caller
    status,     \* "run", "done" (the top-level interpret returned early), "panic"
    obs,        \* what the last step did, for the properties
    source,     \* the statements of the program text the tokens are lexed from
    tokens,     \* Parser::tokens
    parser,     \* Parser::index, Parser::token and Parser::end
    ast,        \* the root Node of the Tree of Parser::parse
    scope,      \* the scope path of Parser::parse
    calls,      \* the call stack of parse, build_tree and build_expression
    outcome     \* "idle", "parsing", "tree" (parse returned), "panic"

interpVars == <<family, nmain, interps, ctl, result, status, obs>>
parseVars == <<source, tokens, parser, ast, scope, calls, outcome>>
vars == <<family, nmain, interps, ctl, result, status, obs,
          source, tokens, parser, ast, scope, calls, outcome>>

NoResult == [set |-> FALSE]
Returned(v) == [set |-> TRUE, value |-> v]
NoObs == [kind |-> "none"]

\* An Interpreter { tree, memory, locals }. The other fields are history:
\* frame is the interpreter of the function body (or of the top level) the
\* interpreter's statements belong to; returned is the first Return statement
\* executed by the interpreter or by a loop of it that ended; assigned and
\* declared are the names its Assign and Declare statements, and those of
\* the sub-interpreters that ended, wrote.
Interpreter(body, memory, locals, frame) ==
    [tree |-> [id |-> 0, data |-> Main, nodes |-> body],
     memory |-> memory, locals |-> locals, frame |-> frame,
     returned |-> NoResult, assigned |-> {}, declared |-> {}]

InterpretFrame(self) ==
    [fn |-> "interpret", self |-> self, pc |-> 1, stage |-> "dispatch",
     name |-> "", variable |-> Variable(Null, Null)]
EvalFrame(self, expression) ==
    [fn |-> "eval_expression", self |-> self, expression |-> expression,
     stage |-> "match", var |-> Null, args |-> <<>>, before |-> init_memory]
LoopFrame(self, sub, expression, entry) ==
    [fn |-> "loop_while", self |-> self, sub |-> sub,
     expression |-> expression, stage |-> "first", iterations |-> 0,
     entry |-> entry]

Top == ctl[Len(ctl)]
Pop == SubSeq(ctl, 1, Len(ctl) - 1)
Self == interps[Top.self]
At(fn, stage) ==
    status = "run" /\ ctl # <<>> /\ Top.fn = fn /\ Top.stage = stage
\* The statement the interpret on top of the stack is at.
AtStatement == At("interpret", "dispatch") /\ Top.pc <= Len(Self.tree.nodes)
CurNode == Self.tree.nodes[Top.pc]
SetTop(frame) == [ctl EXCEPT ![Len(ctl)] = frame]
Advance == SetTop([Top EXCEPT !.pc = @ + 1, !.stage = "dispatch"])
\* The Expression node eval_expression is given for a root node.
Wrap(root) == [id |-> 0, data |-> Expression, nodes |-> <<root>>]

Step(interps2, ctl2, result2, status2, obs2) ==
    /\ interps' = interps2
    /\ ctl' = ctl2
    /\ result' = result2
    /\ status' = status2
    /\ obs' = obs2
    /\ UNCHANGED <<family, nmain, parseVars>>

PanicWith(obs2) == Step(interps, ctl, result, "panic", obs2)
Panics == PanicWith(NoObs)

\* interpret returns: the loop ended (early = FALSE) or a Return or a
\* propagating loop ended it (early = TRUE).
Leave(interps2, early, obs2) ==
    Step(interps2, Pop, NoResult,
         IF Len(ctl) = 1 /\ early THEN "done" ELSE "run", obs2)

\* ---------------------------------------------------- Interpreter::interpret
\* Data::Declare
IDeclare ==
    /\ AtStatement
    /\ CurNode.data.tag = "Declare"
    /\ LET node == CurNode
           name == node.nodes[1].data.name
           data_type == node.nodes[2].data
           value == IF data_type.name = "list"
                    THEN List([k \in 1..Len(node.nodes[2].nodes) |->
                                  node.nodes[2].nodes[k].data], <<>>)
                    ELSE Null
       IN  IF Len(node.nodes) < 1 THEN Panics
           ELSE IF node.nodes[1].data.tag # "Identifier"
                THEN Step(interps, Advance, NoResult, "run", NoObs)
           ELSE IF Len(node.nodes) < 2 THEN Panics
           ELSE IF data_type.tag # "Type" THEN Panics
           ELSE Step([interps EXCEPT
                        ![Top.self].memory =
                            Insert(@, name, Variable(value, data_type)),
                        ![Top.self].locals = Append(@, name),
                        ![Top.self].declared = @ \cup {name}],
                     Advance, NoResult, "run", NoObs)

\* Data::Assign, up to the evaluation of the value.
IAssignStart ==
    /\ AtStatement
    /\ CurNode.data.tag = "Assign"
    /\ LET node == CurNode
           name == node.nodes[1].data.name
       IN  IF Len(node.nodes) < 1 THEN Panics
           ELSE IF node.nodes[1].data.tag # "Identifier"
                THEN Step(interps, Advance, NoResult, "run", NoObs)
           ELSE IF name \notin DOMAIN Self.memory THEN Panics
           ELSE IF Len(node.nodes) < 2 THEN Panics
           ELSE Step(interps,
                     Append(SetTop([Top EXCEPT !.stage = "assign",
                                               !.name = name,
                                               !.variable = Self.memory[name]]),
                            EvalFrame(Top.self, Wrap(node.nodes[2]))),
                     NoResult, "run", NoObs)

\* An Assign that updates the variable only where the Memory still has it.
AssignStoreExisting(memory, name, expression_value, data_type) ==
    IF name \in DOMAIN memory
    THEN Insert(memory, name, Variable(expression_value, data_type))
    ELSE memory

\* The insert that ends an Assign.
AssignStore(memory, name, expression_value, data_type) ==
    Insert(memory, name, Variable(expression_value, data_type))

\* Data::Assign, from the evaluated value on.
IAssignFinish ==
    /\ At("interpret", "assign")
    /\ result.set
    /\ LET stored == Coerce(Top.variable, result.value)
           seen == [kind |-> "assign", self |-> Top.self, name |-> Top.name,
                    variable |-> Top.variable, value |-> result.value,
                    memory |-> Self.memory, ok |-> ~Panicked(stored),
                    node |-> CurNode]
       IN  IF Panicked(stored) THEN PanicWith(seen)
           ELSE Step([interps EXCEPT
                        ![Top.self].memory =
                            AssignStore(@, Top.name, stored,
                                        Top.variable.data_type),
                        ![Top.self].assigned = @ \cup {Top.name}],
                     Advance, NoResult, "run", seen)

\* Data::Return, up to the evaluation of the value.
IReturnStart ==
    /\ AtStatement
    /\ CurNode.data.tag = "Return"
    /\ Step(interps,
            Append(SetTop([Top EXCEPT !.stage = "return"]),
                   EvalFrame(Top.self,
                             [id |-> 0, data |-> Expression,
                              nodes |-> CurNode.nodes])),
            NoResult, "run", NoObs)

\* The insert that ends a Return.
ReturnStore(memory, value) ==
    Insert(memory, "return", Variable(value, memory["return"].data_type))

\* The function whose body the interpreter of this frame executes: the one of
\* the call that waits for the frame, Null for the top level.
Executing(frame) ==
    IF \E k \in 2..Len(ctl) : /\ ctl[k].fn = "interpret"
                             /\ ctl[k].self = frame
                             /\ ctl[k - 1].fn = "eval_expression"
                             /\ ctl[k - 1].stage = "call"
    THEN ctl[(CHOOSE k \in 2..Len(ctl) : /\ ctl[k].fn = "interpret"
                                         /\ ctl[k].self = frame
                                         /\ ctl[k - 1].fn = "eval_expression"
                                         /\ ctl[k - 1].stage = "call") - 1].var
    ELSE Null

\* Data::Return, from the evaluated value on.
IReturnFinish ==
    /\ At("interpret", "return")
    /\ result.set
    /\ IF "return" \notin DOMAIN Self.memory THEN Panics
       ELSE LET stored == [interps EXCEPT
                             ![Top.self].memory = ReturnStore(@, result.value)]
                seen == [kind |-> "return", self |-> Top.self,
                         frame |-> Self.frame,
                         function |-> Executing(Self.frame),
                         variable |-> stored[Top.self].memory["return"]]
            IN  Leave([stored EXCEPT
                         ![Top.self].returned =
                             IF @.set THEN @ ELSE Returned(result.value)],
                      TRUE, seen)

\* Data::While, up to the first evaluation of the guard.
IWhileStart ==
    /\ AtStatement
    /\ CurNode.data.tag = "While"
    /\ IF Len(CurNode.nodes) < 1 THEN Panics
       ELSE Step(Append(interps,
                        Interpreter(Tail(CurNode.nodes), Self.memory, <<>>,
                                    Self.frame)),
                 SetTop([Top EXCEPT !.stage = "while"])
                   \o <<LoopFrame(Top.self, Len(interps) + 1,
                                  CurNode.nodes[1], Self.memory),
                        EvalFrame(Top.self, CurNode.nodes[1])>>,
                 NoResult, "run", NoObs)

\* Data::While, from the return of loop_while on.
IWhileFinish ==
    /\ At("interpret", "while")
    /\ result.set
    /\ IF result.value.value.bool
       THEN Leave(interps, TRUE, NoObs)
       ELSE Step(interps, Advance, NoResult, "run", NoObs)

\* Data::Identifier
IIdentifier ==
    /\ AtStatement
    /\ CurNode.data.tag = "Identifier"
    /\ IF CurNode.data.name \notin DOMAIN Self.memory THEN Panics
       ELSE IF Self.memory[CurNode.data.name].value.tag = "KraberFunction"
            THEN Step(interps,
                      Append(SetTop([Top EXCEPT !.stage = "print"]),
                             EvalFrame(Top.self, Wrap(CurNode))),
                      NoResult, "run", NoObs)
       ELSE Step(interps, Advance, NoResult, "run", NoObs)

\* Data::Identifier of an intrinsic, from the evaluated call on.
IPrinted ==
    /\ At("interpret", "print")
    /\ result.set
    /\ Step(interps, Advance, NoResult, "run", NoObs)

\* Data::Text and the statements interpret ignores.
IOther ==
    /\ AtStatement
    /\ CurNode.data.tag \notin
          {"Declare", "Assign", "Return", "While", "Identifier"}
    /\ Step(interps, Advance, NoResult, "run", NoObs)

\* The for loop of interpret ends.
InterpretEnd ==
    /\ At("interpret", "dispatch")
    /\ Top.pc > Len(Self.tree.nodes)
    /\ Leave(interps, FALSE, NoObs)

\* ---------------------------------------------- Interpreter::eval_expression
\* The node of the call (or of the literal) the expression holds.
Callee == Top.expression.nodes[1]

\* The value handed back to the caller of eval_expression.
Yield(interps2, value, obs2) == Step(interps2, Pop, Returned(value), "run", obs2)

\* The match on expression.nodes[0].data.
EMatch ==
    /\ At("eval_expression", "match")
    /\ IF Len(Top.expression.nodes) < 1 THEN Panics
       ELSE LET data == Callee.data IN
            IF data.tag = "Identifier"
            THEN IF data.name \notin DOMAIN Self.memory THEN Panics
                 ELSE LET var == Self.memory[data.name] IN
                      IF var.value.tag \in {"KraberFunction", "Function"}
                      THEN Step(interps,
                                SetTop([Top EXCEPT !.stage = "args",
                                                   !.var = var.value,
                                                   !.before = Self.memory]),
                                NoResult, "run", NoObs)
                      ELSE Yield(interps, var.value, NoObs)
            ELSE IF data.tag = "FunctionContainer"
            THEN Yield(interps,
                       Function(data.params, data.param_types,
                                data.return_types, Callee.nodes),
                       NoObs)
            ELSE Yield(interps, data, NoObs)

\* One step of the map over the arguments: a literal is its data, an
\* Identifier is evaluated as an expression of its own.
EArgument ==
    /\ At("eval_expression", "args")
    /\ Len(Top.args) < Len(Callee.nodes)
    /\ LET x == Callee.nodes[Len(Top.args) + 1] IN
       IF x.data.tag = "Identifier"
       THEN Step(interps,
                 Append(SetTop([Top EXCEPT !.stage = "arg"]),
                        EvalFrame(Top.self, Wrap(x))),
                 NoResult, "run", NoObs)
       ELSE Step(interps, SetTop([Top EXCEPT !.args = Append(@, x.data)]),
                 NoResult, "run", NoObs)

\* The evaluation of an Identifier argument returned.
EArgumentValue ==
    /\ At("eval_expression", "arg")
    /\ result.set
    /\ Step(interps,
            SetTop([Top EXCEPT !.stage = "args",
                               !.args = Append(@, result.value)]),
            NoResult, "run", NoObs)

\* Data::KraberFunction: body(args).
EIntrinsic ==
    /\ At("eval_expression", "args")
    /\ Len(Top.args) = Len(Callee.nodes)
    /\ Top.var.tag = "KraberFunction"
    /\ LET data == Apply(Top.var.body, Top.args)
           seen == [kind |-> "intrinsic", self |-> Top.self,
                    body |-> Top.var.body, args |-> Top.args,
                    expression |-> Top.expression, before |-> Top.before,
                    memory |-> Self.memory, value |-> data]
       IN  IF Panicked(data) THEN PanicWith(seen)
           ELSE Yield(interps, data, seen)

\* Bindings that give the parameters the arguments in the reverse order.
RECURSIVE BindReversed(_, _, _, _, _)
BindReversed(memory, params, param_types, args, k) ==
    IF k > Len(params) THEN memory
    ELSE BindReversed(Insert(memory, params[k],
                             Variable(args[Len(params) + 1 - k],
                                      param_types[k])),
                      params, param_types, args, k + 1)

\* The parameter bindings of a call, the later of two equal names last.
RECURSIVE BindParams(_, _, _, _, _)
BindParams(memory, params, param_types, args, k) ==
    IF k > Len(params) THEN memory
    ELSE BindParams(Insert(memory, params[k],
                           Variable(args[k], param_types[k])),
                    params, param_types, args, k + 1)

\* The memory of the sub-interpreter of a call.
CallMemory(memory, function, args) ==
    Insert(BindParams(memory, function.params, function.param_types, args, 1),
           "return", Variable(Null, function.return_types[1]))

\* Data::Function, up to sub.interpret().
ECall ==
    /\ At("eval_expression", "args")
    /\ Len(Top.args) = Len(Callee.nodes)
    /\ Top.var.tag = "Function"
    /\ LET function == Top.var IN
       IF \/ Len(function.param_types) < Len(function.params)
          \/ Len(Top.args) < Len(function.params)
          \/ Len(function.return_types) < 1
       THEN Panics
       ELSE LET sub == Interpreter(function.body,
                                   CallMemory(Self.memory, function, Top.args),
                                   function.params, Len(interps) + 1)
            IN  Step(Append(interps, sub),
                     Append(SetTop([Top EXCEPT !.stage = "call",
                                               !.before = Self.memory]),
                            InterpretFrame(Len(interps) + 1)),
                     NoResult, "run",
                     [kind |-> "enter", self |-> Top.self,
                      function |-> function, args |-> Top.args,
                      memory |-> sub.memory])

\* The memory the caller adopts when the call returns.
CallResult(sub) == filter_memory(sub.memory, sub.locals)

\* Data::Function, from the return of sub.interpret() on.
ECallReturn ==
    /\ At("eval_expression", "call")
    /\ LET sub == interps[Len(interps)]
           memory == CallResult(sub)
           seen == [kind |-> "call", self |-> Top.self,
                    before |-> Top.before, after |-> memory,
                    function |-> Top.var, args |-> Top.args,
                    locals |-> {sub.locals[k] : k \in 1..Len(sub.locals)},
                    declared |-> sub.declared, assigned |-> sub.assigned,
                    returned |-> sub.returned,
                    value |-> IF "return" \in DOMAIN memory
                              THEN memory["return"].value ELSE PANIC]
           kept == [SubSeq(interps, 1, Len(interps) - 1) EXCEPT
                      ![Top.self].memory = memory,
                      ![Top.self].assigned = @ \cup sub.assigned]
       IN  IF "return" \notin DOMAIN memory
           THEN Step(kept, ctl, result, "panic", seen)
           ELSE Yield(kept, memory["return"].value, seen)

\* --------------------------------------------------- Interpreter::loop_while
Sub == interps[Top.sub]

\* What loop_while leaves when it returns.
LoopSeen(how, memory) ==
    [kind |-> "loop", self |-> Top.self, how |-> how, after |-> memory,
     sub_memory |-> Sub.memory,
     sub_locals |-> {Sub.locals[k] : k \in 1..Len(Sub.locals)},
     declared |-> Sub.declared, iterations |-> Top.iterations,
     returned |-> Sub.returned, frame |-> Sub.frame,
     expression |-> Top.expression, body |-> Sub.tree.nodes,
     entry |-> Top.entry]

\* The memory the caller adopts when the guard is false.
LoopResult(sub) == filter_memory(sub.memory, sub.locals)

\* loop_while returns: by the guard (false) or by a return slot (true).
LoopReturn(propagate) ==
    LET memory == IF propagate THEN Sub.memory ELSE LoopResult(Sub)
        kept == [SubSeq(interps, 1, Len(interps) - 1) EXCEPT
                   ![Top.self].memory = memory,
                   ![Top.self].assigned = @ \cup Sub.assigned,
                   ![Top.self].declared = @ \cup Sub.declared,
                   ![Top.self].returned = IF @.set THEN @ ELSE Sub.returned]
    IN  Yield(kept, Boolean(propagate),
              LoopSeen(IF propagate THEN "return" ELSE "guard", memory))

\* sub.interpret() of one iteration.
LoopIterate ==
    Step(interps,
         Append(SetTop([Top EXCEPT !.stage = "body",
                                   !.iterations = @ + 1]),
                InterpretFrame(Top.sub)),
         NoResult, "run", NoObs)

\* The guard evaluated on self before the first iteration.
LFirst ==
    /\ At("loop_while", "first")
    /\ result.set
    /\ IF result.value.tag # "Boolean" THEN Panics
       ELSE IF result.value.value.bool THEN LoopIterate
       ELSE LoopReturn(FALSE)

\* After sub.interpret(): the guard is evaluated on sub.
LBody ==
    /\ At("loop_while", "body")
    /\ Step(interps,
            Append(SetTop([Top EXCEPT !.stage = "guard"]),
                   EvalFrame(Top.sub, Top.expression)),
            NoResult, "run", NoObs)

\* The return slot of sub that makes loop_while return true.
Propagates(memory) ==
    "return" \in DOMAIN memory /\ memory["return"].value.tag # "Null"

\* The guard evaluated on sub, then the return slot of sub.
LGuard ==
    /\ At("loop_while", "guard")
    /\ result.set
    /\ IF result.value.tag # "Boolean" THEN Panics
       ELSE IF Propagates(Sub.memory) THEN LoopReturn(TRUE)
       ELSE IF result.value.value.bool THEN LoopIterate
       ELSE LoopReturn(FALSE)

\* ------------------------------------------------------------ the programs
TypeNames ==
    {"whole", "integer", "float", "boolean", "text", "function", "list"}

\* The literals of the casts: in and out of the range of the other type.
Literals ==
    {Whole(0), Whole(3), Whole(USIZE_MAX),
     Integer(0 - 2), Integer(5),
     Float(0 - 1, 2), Float(5, 2), Float(0 - 5, 2), Float(2^WordBits + 1, 1),
     Boolean(TRUE), Text("s")}

\* fun() as whole { return 1 }
FunOne == FunLiteral(<<>>, <<>>, "whole", <<ReturnStmt(Leaf(Whole(1)))>>)

\* while lt(i n) { set i to add(i 1) }
CountTo(n) ==
    WhileStmt(Call("lt", <<Ref("i"), Leaf(n)>>),
              <<AssignStmt("i", Call("add", <<Ref("i"), Leaf(Whole(1))>>))>>)

\* Programs of declarations and assignments of every type to every type.
CastFamily ==
    {DeclareStmt("x", t) : t \in TypeNames \ {"list"}}
    \cup {DeclareList("x", <<"integer">>), DeclareList("l", <<"text">>),
          DeclareStmt("n", "whole")}
    \cup {AssignStmt("x", Leaf(v)) : v \in Literals}
    \cup {AssignStmt("x", Ref("n")), AssignStmt("x", Ref("l")),
          AssignStmt("x", Ref("x")), AssignStmt("x", FunOne),
          AssignStmt("x", Call("push", <<Ref("x"), Leaf(Integer(5))>>)),
          Leaf(Text("s")), Call("add", <<Leaf(Whole(3)), Ref("x")>>)}

\* declare i as whole  set i to 0  while lt(i n) { set i to add(i 1) }
LoopFamily ==
    {DeclareStmt("i", "whole"), AssignStmt("i", Leaf(Whole(0)))}
    \cup {CountTo(Whole(n)) : n \in 0..MaxLoop}
    \cup {CountTo(Integer(n)) : n \in (0 - 1)..MaxLoop}
    \cup {CountTo(Float(n, 1)) : n \in 0..MaxLoop}

\* fun() as whole { return 0 }
FunZero == FunLiteral(<<>>, <<>>, "whole", <<ReturnStmt(Leaf(Whole(0)))>>)

\* fun() as whole { while true { declare t as whole  return 1 } }
FunLeak ==
    FunLiteral(<<>>, <<>>, "whole",
               <<WhileStmt(Leaf(Boolean(TRUE)),
                           <<DeclareStmt("t", "whole"),
                             ReturnStmt(Leaf(Whole(1)))>>)>>)

\* fun() as whole { declare n as whole
\*                  while lt(i 2) { set i to add(i 1)  return n }
\*                  return 7 }
FunNull ==
    FunLiteral(<<>>, <<>>, "whole",
               <<DeclareStmt("n", "whole"),
                 WhileStmt(Call("lt", <<Ref("i"), Leaf(Whole(2))>>),
                           <<AssignStmt("i", Call("add", <<Ref("i"),
                                                           Leaf(Whole(1))>>)),
                             ReturnStmt(Ref("n"))>>),
                 ReturnStmt(Leaf(Whole(7)))>>)

\* fun(i as whole) as whole { declare t as whole  set t to i  return t }
FunLocal ==
    FunLiteral(<<"i">>, <<"whole">>, "whole",
               <<DeclareStmt("t", "whole"), AssignStmt("t", Ref("i")),
                 ReturnStmt(Ref("t"))>>)

\* fun() as whole { set i to 3 }
FunSet ==
    FunLiteral(<<>>, <<>>, "whole", <<AssignStmt("i", Leaf(Whole(3)))>>)

FunLiterals == {FunZero, FunLeak, FunNull, FunLocal, FunSet}

\* while lt(i 1) { declare i as whole  set i to 1 }
LoopDeclares ==
    WhileStmt(Call("lt", <<Ref("i"), Leaf(Whole(1))>>),
              <<DeclareStmt("i", "whole"), AssignStmt("i", Leaf(Whole(1)))>>)

\* Programs that define a function, call it and loop.
CallFamily ==
    {DeclareStmt("f", "function"), DeclareStmt("i", "whole"),
     AssignStmt("i", Leaf(Whole(0))),
     AssignStmt("i", Call("f", <<>>)),
     AssignStmt("i", Call("f", <<Ref("i")>>)),
     Call("equal", <<Call("f", <<>>)>>),
     CountTo(Whole(MaxLoop)), LoopDeclares}
    \cup {AssignStmt("f", literal) : literal \in FunLiterals}

\* fun() as text { return "s" }
FunInner == FunLiteral(<<>>, <<>>, "text", <<ReturnStmt(Leaf(Text("s")))>>)
\* fun() as whole { return g() }
FunOuter == FunLiteral(<<>>, <<>>, "whole", <<ReturnStmt(Call("g", <<>>))>>)
\* fun() as whole { declare t as text  set t to g()  return 1 }
FunAfter ==
    FunLiteral(<<>>, <<>>, "whole",
               <<DeclareStmt("t", "text"), AssignStmt("t", Call("g", <<>>)),
                 ReturnStmt(Leaf(Whole(1)))>>)
\* fun() as whole { declare t as text  set t to g() }
FunSilent ==
    FunLiteral(<<>>, <<>>, "whole",
               <<DeclareStmt("t", "text"), AssignStmt("t", Call("g", <<>>))>>)

\* Programs in which the function f calls the function g.
NestFamily ==
    {DeclareStmt("g", "function"), DeclareStmt("f", "function"),
     AssignStmt("g", FunInner), Call("equal", <<Call("f", <<>>)>>)}
    \cup {AssignStmt("f", literal)
            : literal \in {FunZero, FunSet, FunOuter, FunAfter, FunSilent}}

\* Programs that push onto the lists l and m, as an Assign and as a statement.
Pushables == {Whole(1), Integer(1), Integer(0 - 2), Text("s")}
PushFamily ==
    {DeclareList("l", <<"integer">>), DeclareList("l", <<"whole", "text">>),
     DeclareList("m", <<"integer">>),
     AssignStmt("m", Call("push", <<Ref("l"), Leaf(Integer(5))>>)),
     AssignStmt("m", Ref("l")), AssignStmt("l", Leaf(Whole(1))),
     Call("push", <<Ref("l")>>),
     Call("push", <<Leaf(Whole(1)), Ref("l")>>)}
    \cup {AssignStmt("l", Call("push", <<Ref("l"), Leaf(v)>>))
            : v \in Pushables}
    \cup {Call("push", <<Ref("l"), Leaf(v)>>) : v \in Pushables}

\* The calls multiply(xs) of at most MaxFactors literals.
Factors == {Text(""), Text("s"), Whole(2), Integer(0 - 1), Float(5, 2)}
MultiplyFamily ==
    {Call("multiply", [k \in 1..Len(xs) |-> Leaf(xs[k])])
       : xs \in UNION {[1..n -> Factors] : n \in 0..MaxFactors}}

Palette(f) ==
    CASE f = "cast" -> CastFamily
      [] f = "loop" -> LoopFamily
      [] f = "call" -> CallFamily
      [] f = "nest" -> NestFamily
      [] f = "push" -> PushFamily
      [] f = "multiply" -> MultiplyFamily

Families == {"cast", "loop", "call", "nest", "push", "multiply"}

\* The number of statements of a program of the family.
Statements(f) ==
    CASE f \in {"cast", "push"} -> MaxCast
      [] f = "multiply" -> 1
      [] OTHER -> MaxMain

\* ------------------------------------------------------------------- main
\* The next statement of the top-level program is dispatched.
MainStatement ==
    /\ status = "run"
    /\ ctl = <<>>
    /\ nmain < Statements(family)
    /\ \E statement \in Palette(family) :
          /\ interps' = [interps EXCEPT ![1].tree.nodes = <<statement>>]
          /\ ctl' = <<InterpretFrame(1)>>
    /\ nmain' = nmain + 1
    /\ result' = NoResult
    /\ obs' = NoObs
    /\ UNCHANGED <<family, status, parseVars>>

\* main, once the Interpreter is built and init_memory has run.
Interpreting ==
    /\ nmain = 0
    /\ interps = <<Interpreter(<<>>, init_memory, <<>>, 1)>>
    /\ ctl = <<>>
    /\ result = NoResult
    /\ status = "run"
    /\ obs = NoObs

\* No parse is under way.
ParserIdle ==
    /\ source = <<>>
    /\ tokens = <<>>
    /\ parser = [index |-> 0, token |-> [value |-> "", category |-> "KEY"],
                 end |-> TRUE]
    /\ ast = [id |-> 0, data |-> Main, nodes |-> <<>>]
    /\ scope = <<>>
    /\ calls = <<>>
    /\ outcome = "idle"

Init ==
    /\ family \in Families
    /\ Interpreting
    /\ ParserIdle

Next ==
    \/ MainStatement
    \/ IDeclare
    \/ IAssignStart
    \/ IAssignFinish
    \/ IReturnStart
    \/ IReturnFinish
    \/ IWhileStart
    \/ IWhileFinish
    \/ IIdentifier
    \/ IPrinted
    \/ IOther
    \/ InterpretEnd
    \/ EMatch
    \/ EArgument
    \/ EArgumentValue
    \/ EIntrinsic
    \/ ECall
    \/ ECallReturn
    \/ LFirst
    \/ LBody
    \/ LGuard

Spec == Init /\ [][Next]_vars

\* The programs of the loop family alone. The interpreter is sequential and
\* never stops while a step of it is left.
LoopInit == Init /\ family = "loop"

LoopNext ==
    \/ MainStatement
    \/ IDeclare
    \/ IAssignStart
    \/ IAssignFinish
    \/ IWhileStart
    \/ IWhileFinish
    \/ InterpretEnd
    \/ EMatch
    \/ EArgument
    \/ EArgumentValue
    \/ EIntrinsic
    \/ LFirst
    \/ LBody
    \/ LGuard

LoopSpec == LoopInit /\ [][LoopNext]_vars /\ WF_vars(LoopNext)

\* ------------------------------------------------------------------ tokens
keywords == {"declare", "as", "set", "to", "while", "return"}
types == {"whole", "integer", "float", "boolean", "text", "function", "list"}

\* The numbers and texts of the program texts, as the lexer's words, with
\* what str::parse gives for them.
ParseUsize == [w \in {"0", "1", "2"} |-> CASE w = "0" -> 0 [] w = "1" -> 1
                                            [] w = "2" -> 2]
ParseIsize == [w \in {"-1", "+1", "+2"} |->
                 CASE w = "-1" -> 0 - 1 [] w = "+1" -> 1 [] w = "+2" -> 2]
ParseF64 == [w \in {"0.5"} |-> <<1, 2>>]
ParseBool == [w \in {"true", "false"} |-> w = "true"]
TextWords == [w \in {"\"s\""} |-> "s"]

\* The Token get_tokens pushes for a word of the code.
Token(word) ==
    CASE word \in keywords -> [value |-> word, category |-> "KEY"]
      [] word \in DOMAIN ParseBool -> [value |-> word, category |-> "BLN"]
      [] word \in types -> [value |-> word, category |-> "TYP"]
      [] word = "fun" -> [value |-> word, category |-> "FUN"]
      [] word \in DOMAIN ParseF64 -> [value |-> word, category |-> "FLT"]
      [] word \in DOMAIN ParseIsize -> [value |-> word, category |-> "INT"]
      [] word \in DOMAIN ParseUsize -> [value |-> word, category |-> "WHL"]
      [] word \in {"(", ")"} -> [value |-> word, category |-> "PAR"]
      [] word \in {"{", "}"} -> [value |-> word, category |-> "BRC"]
      [] word \in {"[", "]"} -> [value |-> word, category |-> "BRK"]
      [] word \in DOMAIN TextWords ->
           [value |-> TextWords[word], category |-> "TXT"]
      [] OTHER -> [value |-> word, category |-> "REF"]

get_tokens(words) == [k \in 1..Len(words) |-> Token(words[k])]

\* -------------------------------------------------------------- Node, Tree
\* Tree::new().root
NewTree == [id |-> 0, data |-> Main, nodes |-> <<>>]

\* Some(i) is i >= 0, None is -1.
get_child_idx(v, id) ==
    IF \E i \in 1..Len(v) : v[i].id = id
    THEN (CHOOSE i \in 1..Len(v) :
             v[i].id = id /\ \A j \in 1..(i - 1) : v[j].id # id) - 1
    ELSE 0 - 1

\* Node::insert: the node after the insert, and the path from it to the node
\* the call returns.
RECURSIVE insert(_, _)
insert(node, item) ==
    LET next_node_idx == get_child_idx(node.nodes, Len(node.nodes))
    IN  IF next_node_idx >= 0
        THEN LET below == insert(node.nodes[next_node_idx + 1], item)
             IN  [node |-> [node EXCEPT !.nodes[next_node_idx + 1] = below.node],
                  path |-> <<next_node_idx>> \o below.path]
        ELSE [node |-> [node EXCEPT !.nodes =
                           Append(@, [id |-> Len(node.nodes), data |-> item,
                                      nodes |-> <<>>])],
              path |-> <<Len(node.nodes)>>]

\* Node::get_scope: the node at the path of child indices.
RECURSIVE get_scope(_, _)
get_scope(node, path) ==
    IF Len(path) > 0 THEN get_scope(node.nodes[path[1] + 1], Tail(path))
    ELSE node

\* get_scope(path).insert(item) on the tree of root `root`: the root after
\* the insert, and the path from the root to the node the insert returns.
RECURSIVE InsertAt(_, _, _)
InsertAt(root, path, item) ==
    IF path = <<>> THEN insert(root, item)
    ELSE LET below == InsertAt(root.nodes[path[1] + 1], Tail(path), item)
         IN  [node |-> [root EXCEPT !.nodes[path[1] + 1] = below.node],
              path |-> <<path[1]>> \o below.path]

\* Vec::pop: nothing happens on an empty vector.
PopScope(path) ==
    IF path = <<>> THEN path ELSE SubSeq(path, 1, Len(path) - 1)

\* ------------------------------------------------------------------ Parser
\* create_parser(tokens)
create_parser(toks) == [index |-> 0, token |-> toks[1], end |-> FALSE]

\* Parser::step
step(p) ==
    IF p.index + 1 < Len(tokens)
    THEN [p EXCEPT !.index = p.index + 1, !.token = tokens[p.index + 2]]
    ELSE [p EXCEPT !.index = p.index + 1, !.end = TRUE]

\* Parser::back indexes tokens at index - 1.
CanBack(p) == p.index >= 1 /\ p.index - 1 < Len(tokens)
back(p) == [p EXCEPT !.index = p.index - 1, !.token = tokens[p.index]]

\* self.index < self.tokens.len() - 1 && self.tokens[self.index + 1].value == v
NextIs(p, v) ==
    p.index < Len(tokens) - 1 /\ tokens[p.index + 2].value = v

\* A call of parse, build_tree or build_expression: where it is (pc), the
\* nodes it holds references to (paths from the root), its bracket counter,
\* the number of scope.pop() that follow its body loop, and the index of the
\* cursor when it was entered.
Frame(fn, node, entry) ==
    [fn |-> fn, pc |-> "start", node |-> node, sub_node |-> <<>>,
     counter |-> 0, pops |-> 0, entry |-> entry]

TopCall == calls[Len(calls)]
PopCall == SubSeq(calls, 1, Len(calls) - 1)
SetCall(call) == [calls EXCEPT ![Len(calls)] = call]
In(fn, pc) ==
    outcome = "parsing" /\ calls # <<>> /\ TopCall.fn = fn /\ TopCall.pc = pc
\* build_tree was entered at a token of the category, a keyword of the value.
InBuildTree(category) == In("build_tree", "start") /\ parser.token.category = category
InKey(value) == InBuildTree("KEY") /\ parser.token.value = value

Parse(parser2, ast2, scope2, calls2, outcome2) ==
    /\ parser' = parser2
    /\ ast' = ast2
    /\ scope' = scope2
    /\ calls' = calls2
    /\ outcome' = outcome2
    /\ UNCHANGED <<interpVars, source, tokens>>

\* A panic!, an unwrap() of an Err or an index out of range.
ParsePanics == Parse(parser, ast, scope, calls, "panic")
\* The call on top returns.
Returns(parser2, ast2, scope2) ==
    Parse(parser2, ast2, scope2, PopCall, outcome)
\* The call on top goes on at pc, after the call of fn if there is one.
GoesOn(parser2, ast2, scope2, call, callee) ==
    Parse(parser2, ast2, scope2, SetCall(call) \o callee, outcome)

\* ------------------------------------------------------------------- parse
\* while !self.end { self.build_tree(..) ...
ParseCall ==
    /\ In("parse", "start")
    /\ ~parser.end
    /\ GoesOn(parser, ast, scope, [TopCall EXCEPT !.pc = "step"],
              <<Frame("build_tree", <<>>, parser.index)>>)

\* A loop of parse that does not advance the cursor.
ParseStays ==
    /\ In("parse", "step")
    /\ GoesOn(parser, ast, scope, [TopCall EXCEPT !.pc = "start"], <<>>)

\* ... self.step() }
ParseStep ==
    /\ In("parse", "step")
    /\ GoesOn(step(parser), ast, scope, [TopCall EXCEPT !.pc = "start"], <<>>)

\* parse returns the tree.
ParseEnd ==
    /\ In("parse", "start")
    /\ parser.end
    /\ Parse(parser, ast, scope, PopCall, "tree")

\* -------------------------------------------------------- build_tree: declare
\* The loop over the element types of a list type.
RECURSIVE ElementTypes(_, _, _, _)
ElementTypesLoop(p, root, sub_node, counter) ==
    IF ~p.end /\ counter # 0
    THEN IF p.token.value = "["
         THEN ElementTypes(step(p), root, sub_node, counter + 1)
         ELSE IF p.token.value = "]"
         THEN ElementTypes(step(p), root, sub_node, counter - 1)
         ELSE IF p.token.category = "TYP"
         THEN ElementTypes(step(p),
                           InsertAt(root, sub_node, Type(p.token.value)).node,
                           sub_node, counter)
         ELSE ElementTypes(step(p), root, sub_node, counter)
    ELSE [parser |-> p, ast |-> root]

\* The loop, entered with the values of the parser, the tree and the counter
\* (each is evaluated once, as the fields of self and the locals are).
ElementTypes(p, root, sub_node, counter) ==
    CHOOSE listed \in {ElementTypesLoop(at[1], at[2], at[3], at[4])
                         : at \in {<<p, root, sub_node, counter>>}} : TRUE

BTDeclare ==
    /\ InKey("declare")
    /\ \E p1 \in {step(parser)} :
       \E node \in {InsertAt(ast, scope, Declare)} :
       \E name \in {InsertAt(node.node, node.path,
                             Identifier(p1.token.value))} :
       \E p2 \in {step(p1)} :
       \E p3 \in {step(p2)} :
       \E sub_node \in {InsertAt(name.node, node.path,
                                 Type(p3.token.value))} :
          IF p1.token.category # "REF" THEN ParsePanics
          ELSE IF p2.token.value # "as" THEN Returns(p2, name.node, scope)
          ELSE IF p3.token.category # "TYP" THEN ParsePanics
          ELSE IF ~NextIs(p3, "[") THEN Returns(p3, sub_node.node, scope)
          ELSE \E listed \in {ElementTypes(step(step(p3)), sub_node.node,
                                           sub_node.path, 1)} :
                  IF ~CanBack(listed.parser) THEN ParsePanics
                  ELSE Returns(back(listed.parser), listed.ast, scope)

\* ------------------------------------------------------------ build_tree: set
\* The loop over the parameters of a function literal.
RECURSIVE Params(_, _, _, _)
ParamsLoop(p, counter, params, param_types) ==
    IF ~p.end /\ counter # 0
    THEN IF p.token.value = "("
         THEN Params(step(p), counter + 1, params, param_types)
         ELSE IF p.token.value = ")"
         THEN Params(step(p), counter - 1, params, param_types)
         ELSE IF p.token.category = "REF"
         THEN LET p1 == step(p)
                  p2 == step(p1)
              IN  IF p1.token.value # "as"
                  THEN Params(step(p1), counter, Append(params, p.token.value),
                              param_types)
                  ELSE IF p2.token.category # "TYP"
                  THEN [panic |-> TRUE, parser |-> p2]
                  ELSE Params(step(p2), counter, Append(params, p.token.value),
                              Append(param_types, Type(p2.token.value)))
         ELSE Params(step(p), counter, params, param_types)
    ELSE [panic |-> FALSE, parser |-> p, params |-> params,
          param_types |-> param_types]

\* The loop, entered with the values of the parser, the counter and the two
\* vectors (each is evaluated once, as the fields of self and the locals are).
Params(p, counter, params, param_types) ==
    CHOOSE head \in {ParamsLoop(at[1], at[2], at[3], at[4])
                       : at \in {<<p, counter, params, param_types>>}} : TRUE

\* "set", up to the value: a function literal up to its body, or the call of
\* build_expression.
BTSet ==
    /\ InKey("set")
    /\ \E p1 \in {step(parser)} :
       \E scope1 \in {Append(scope, Len(get_scope(ast, scope).nodes))} :
       \E node \in {InsertAt(ast, scope, Assign)} :
       \E name \in {InsertAt(node.node, node.path,
                             Identifier(p1.token.value))} :
       \E p2 \in {step(p1)} :
       \E p3 \in {step(p2)} :
          IF p1.token.category # "REF" THEN ParsePanics
          ELSE IF p2.token.value # "to" THEN Returns(p2, name.node, scope1)
          ELSE IF p3.token.category # "FUN"
          THEN GoesOn(p3, name.node, PopScope(scope1),
                      [TopCall EXCEPT !.pc = "leave", !.node = node.path],
                      <<Frame("build_expression", node.path, p3.index)>>)
          ELSE IF ~NextIs(p3, "(") THEN Returns(p3, name.node, scope1)
          ELSE \E head \in {Params(step(step(p3)), 1, <<>>, <<>>)} :
                  IF head.panic THEN ParsePanics
                  ELSE IF head.parser.token.value # "as" THEN ParsePanics
                  ELSE \E p4 \in {step(head.parser)} :
                       \E scope2 \in
                          {Append(scope1,
                                  Len(get_scope(name.node, node.path).nodes))} :
                       \E container \in
                          {InsertAt(name.node, node.path,
                                    FunctionContainer(
                                        head.params, head.param_types,
                                        <<Type(p4.token.value)>>))} :
                          IF p4.token.category # "TYP" THEN ParsePanics
                          ELSE GoesOn(step(step(p4)), container.node, scope2,
                                      [TopCall EXCEPT !.pc = "body",
                                                      !.node = node.path,
                                                      !.counter = 1,
                                                      !.pops = 2],
                                      <<>>)

\* ---------------------------------------------------------- build_tree: while
\* "while", up to the loop over the guard.
BTWhile ==
    /\ InKey("while")
    /\ LET p1 == step(parser)
           scope1 == Append(scope, Len(get_scope(ast, scope).nodes))
           node == InsertAt(ast, scope, While)
           sub_node == InsertAt(node.node, node.path, Expression)
       IN  IF p1.index >= Len(tokens) - 1 THEN ParsePanics
           ELSE GoesOn(p1, sub_node.node, scope1,
                       [TopCall EXCEPT !.pc = "guard", !.node = node.path,
                                       !.sub_node = sub_node.path],
                       <<>>)

\* The loop over the guard, and the opening of the body.
BTGuard ==
    /\ In("build_tree", "guard")
    /\ IF ~parser.end /\ parser.token.category # "BRC"
       THEN GoesOn(parser, ast, scope, [TopCall EXCEPT !.pc = "guard_step"],
                   <<Frame("build_expression", TopCall.sub_node,
                           parser.index)>>)
       ELSE IF parser.token.value # "{" THEN ParsePanics
       ELSE GoesOn(step(parser), ast, scope,
                   [TopCall EXCEPT !.pc = "body", !.counter = 1, !.pops = 1],
                   <<>>)

BTGuardStep ==
    /\ In("build_tree", "guard_step")
    /\ GoesOn(step(parser), ast, scope, [TopCall EXCEPT !.pc = "guard"], <<>>)

RECURSIVE PopScopes(_, _)
PopScopes(path, n) == IF n = 0 THEN path ELSE PopScopes(PopScope(path), n - 1)

\* The loop over a body, of a while or of a function literal, and what
\* follows it: back() and the pops of the scope.
BTBody ==
    /\ In("build_tree", "body")
    /\ IF ~parser.end /\ TopCall.counter # 0
       THEN IF parser.token.value = "{"
            THEN GoesOn(step(parser), ast, scope,
                        [TopCall EXCEPT !.counter = @ + 1], <<>>)
            ELSE IF parser.token.value = "}"
            THEN GoesOn(step(parser), ast, scope,
                        [TopCall EXCEPT !.counter = @ - 1], <<>>)
            ELSE GoesOn(parser, ast, scope, [TopCall EXCEPT !.pc = "body_step"],
                        <<Frame("build_tree", <<>>, parser.index)>>)
       ELSE IF ~CanBack(parser) THEN ParsePanics
       ELSE Returns(back(parser), ast, PopScopes(scope, TopCall.pops))

BTBodyStep ==
    /\ In("build_tree", "body_step")
    /\ GoesOn(step(parser), ast, scope, [TopCall EXCEPT !.pc = "body"], <<>>)

\* ------------------------------------------------- build_tree: the other arms
\* "return"
BTReturn ==
    /\ InKey("return")
    /\ LET node == InsertAt(ast, scope, Return)
           p1 == step(parser)
       IN  GoesOn(p1, node.node, scope, [TopCall EXCEPT !.pc = "leave"],
                  <<Frame("build_expression", node.path, p1.index)>>)

\* Meta::REF
BTRef ==
    /\ InBuildTree("REF")
    /\ GoesOn(parser, ast, scope, [TopCall EXCEPT !.pc = "leave"],
              <<Frame("build_expression", scope, parser.index)>>)

\* Meta::TXT and Meta::TYP
BTInsert ==
    /\ \/ InBuildTree("TXT")
       \/ InBuildTree("TYP")
    /\ LET item == IF parser.token.category = "TXT"
                   THEN Text(parser.token.value)
                   ELSE Type(parser.token.value)
       IN  Returns(parser, InsertAt(ast, scope, item).node, scope)

\* The arms `_ => {}`: another keyword, a token of another category.
BTSkip ==
    /\ In("build_tree", "start")
    /\ \/ /\ parser.token.category = "KEY"
          /\ parser.token.value \notin {"declare", "set", "while", "return"}
       \/ parser.token.category \notin {"KEY", "TXT", "REF", "TYP"}
    /\ Returns(parser, ast, scope)

\* build_tree returns after the build_expression it ends with.
BTLeave ==
    /\ In("build_tree", "leave")
    /\ Returns(parser, ast, scope)

\* -------------------------------------------------------- build_expression
\* The Data of a literal token, or PANIC where parse().unwrap() panics.
Literal(token) ==
    CASE token.category = "WHL" ->
           IF token.value \in DOMAIN ParseUsize
           THEN Whole(ParseUsize[token.value]) ELSE PANIC
      [] token.category = "INT" ->
           IF token.value \in DOMAIN ParseIsize
           THEN Integer(ParseIsize[token.value]) ELSE PANIC
      [] token.category = "FLT" ->
           IF token.value \in DOMAIN ParseF64
           THEN FloatOf(ParseF64[token.value]) ELSE PANIC
      [] token.category = "BLN" ->
           IF token.value \in DOMAIN ParseBool
           THEN Boolean(ParseBool[token.value]) ELSE PANIC
      [] token.category = "TXT" -> Text(token.value)

\* build_expression, up to the loop over the arguments of a call.
BEStart ==
    /\ In("build_expression", "start")
    /\ LET sub_node == InsertAt(ast, TopCall.node,
                                Identifier(parser.token.value))
       IN  IF parser.token.category \in {"WHL", "INT", "FLT", "BLN", "TXT"}
           THEN IF Panicked(Literal(parser.token)) THEN ParsePanics
                ELSE Returns(parser,
                             InsertAt(ast, TopCall.node,
                                      Literal(parser.token)).node,
                             scope)
           ELSE IF parser.token.category # "REF" THEN ParsePanics
           ELSE IF ~NextIs(parser, "(") THEN Returns(parser, sub_node.node, scope)
           ELSE GoesOn(step(step(parser)), sub_node.node, scope,
                       [TopCall EXCEPT !.pc = "args", !.counter = 1,
                                       !.sub_node = sub_node.path],
                       <<>>)

\* The loop over the arguments, and the back() that follows it.
BEArgs ==
    /\ In("build_expression", "args")
    /\ IF ~parser.end /\ TopCall.counter # 0
       THEN IF parser.token.value = "("
            THEN GoesOn(step(parser), ast, scope,
                        [TopCall EXCEPT !.counter = @ + 1], <<>>)
            ELSE IF parser.token.value = ")"
            THEN GoesOn(step(parser), ast, scope,
                        [TopCall EXCEPT !.counter = @ - 1], <<>>)
            ELSE GoesOn(parser, ast, scope, [TopCall EXCEPT !.pc = "args_step"],
                        <<Frame("build_expression", TopCall.sub_node,
                                parser.index)>>)
       ELSE IF ~CanBack(parser) THEN ParsePanics
       ELSE Returns(back(parser), ast, scope)

BEArgsStep ==
    /\ In("build_expression", "args_step")
    /\ GoesOn(step(parser), ast, scope, [TopCall EXCEPT !.pc = "args"], <<>>)

\* ----------------------------------------------------------- program texts
\* A statement of a program text: the kind of node it stands for, its words
\* and, for a statement with a body between braces, the statements of it.
Plain(kind, text) ==
    [kind |-> kind, text |-> text, block |-> FALSE, body |-> <<>>]
Block(kind, text, body) ==
    [kind |-> kind, text |-> text, block |-> TRUE, body |-> body]

\* The words of the statements, in the order they are written.
RECURSIVE Words(_)
Words(statements) ==
    IF statements = <<>> THEN <<>>
    ELSE LET s == Head(statements)
         IN  s.text
             \o (IF s.block THEN <<"{">> \o Words(s.body) \o <<"}">> ELSE <<>>)
             \o Words(Tail(statements))

PlainStatements ==
    { Plain("Declare", <<"declare", "x", "as", "whole">>),
      Plain("Declare", <<"declare", "x">>),
      Plain("Declare", <<"declare", "l", "as", "list", "[", "whole", "text", "]">>),
      Plain("Assign", <<"set", "x", "to", "add", "(", "x", "0.5", "+1", ")">>),
      Plain("Assign", <<"set", "x", "to", "true">>),
      Plain("Return", <<"return", "x">>),
      Plain("Text", <<"\"s\"">>) }

WhileText == <<"while", "lt", "(", "x", "2", ")">>
FunText == <<"set", "f", "to", "fun", "(", "a", "as", "whole", ")", "as", "whole">>

\* The sequences of at most n plain statements.
Bodies(n) == UNION {[1..k -> PlainStatements] : k \in 0..n}

\* The statements of at most n statements, their bodies counted.
StatementsOf(n) ==
    IF n = 0 THEN {}
    ELSE PlainStatements
           \cup {Block("While", WhileText, body) : body \in Bodies(n - 1)}
           \cup {Block("Assign", FunText, body) : body \in Bodies(n - 1)}

\* The program texts of at most n statements.
RECURSIVE Programs(_)
Programs(n) ==
    {<<>>} \cup UNION {{<<s>> \o rest : rest \in Programs(n - 1 - Len(s.body))}
                        : s \in StatementsOf(n)}

\* Statements that lack a part: a set without its value, and brackets that
\* are opened and not closed.
SetWithoutTo == Plain("Assign", <<"set", "x">>)
FunWithoutParams == Plain("Assign", <<"set", "f", "to", "fun">>)
Unvalued == {SetWithoutTo, FunWithoutParams}
Unclosed ==
    {Plain("Identifier", <<"add", "(", "x">>),
     Plain("Assign", <<"set", "x", "to", "add", "(", "x">>),
     Plain("Declare", <<"declare", "l", "as", "list", "[", "whole">>),
     Plain("Assign", <<"set", "f", "to", "fun", "(", "a", "as", "whole">>),
     Plain("While", WhileText \o <<"{", "return", "x">>),
     Plain("Assign", FunText \o <<"{", "return", "x">>)}
BrokenStatements ==
    Unvalued \cup Unclosed
      \cup {Block("While", WhileText, <<s>>) : s \in Unvalued}

\* The program texts with one such statement, alone or between two others.
BrokenPrograms ==
    {before \o <<s>> \o after :
       s \in BrokenStatements, before \in Programs(1), after \in Programs(1)}

\* ------------------------------------------------------- the parse of main
\* The interpreter has not started.
InterpreterIdle ==
    /\ family = "none"
    /\ nmain = 0
    /\ interps = <<>>
    /\ ctl = <<>>
    /\ result = NoResult
    /\ status = "idle"
    /\ obs = NoObs

\* main, from create_parser(tokens) on, for a program text.
ParseInit ==
    /\ InterpreterIdle
    /\ source \in (Programs(MaxSource) \ {<<>>}) \cup BrokenPrograms
    /\ tokens = get_tokens(Words(source))
    /\ parser = create_parser(tokens)
    /\ ast = NewTree
    /\ scope = <<>>
    /\ calls = <<Frame("parse", <<>>, 0)>>
    /\ outcome = "parsing"

ParseNext ==
    \/ ParseCall
    \/ ParseStep
    \/ ParseEnd
    \/ BTDeclare
    \/ BTSet
    \/ BTWhile
    \/ BTGuard
    \/ BTGuardStep
    \/ BTBody
    \/ BTBodyStep
    \/ BTReturn
    \/ BTRef
    \/ BTInsert
    \/ BTSkip
    \/ BTLeave
    \/ BEStart
    \/ BEArgs
    \/ BEArgsStep

ParseSpec == ParseInit /\ [][ParseNext]_vars

\* main before it has read the program text.
ReadInit == InterpreterIdle /\ ParserIdle

\* The program texts main may be given.
Sources == (Programs(MaxRead) \ {<<>>}) \cup BrokenPrograms

\* main reads a program text, and goes on to create_parser(tokens).
MainReads ==
    /\ outcome = "idle"
    /\ status = "idle"
    /\ \E program \in Sources :
          /\ source' = program
          /\ tokens' = get_tokens(Words(program))
          /\ parser' = create_parser(get_tokens(Words(program)))
    /\ ast' = NewTree
    /\ scope' = <<>>
    /\ calls' = <<Frame("parse", <<>>, 0)>>
    /\ outcome' = "parsing"
    /\ UNCHANGED interpVars

ReadNext == MainReads \/ ParseNext

\* main runs on until parse returns: nothing else runs in the process.
ParseRuns == ReadInit /\ [][ReadNext]_vars /\ WF_vars(ReadNext)

\* ------------------------------------------------ main, for whole programs
\* `declare l as list[integer]` and two pushes onto l.
ListText == <<"declare", "l", "as", "list", "[", "integer", "]">>
PushText(word) == <<"set", "l", "to", "push", "(", "l", word, ")">>
Pushed == {"1", "+1", "\"s\""}
PushProgram(first, second) ==
    <<Plain("Declare", ListText), Plain("Assign", PushText(first)),
      Plain("Assign", PushText(second))>>

\* A function of two integers assigned to f, and a call of it assigned to x.
FunAddText ==
    <<"set", "f", "to", "fun", "(", "a", "as", "integer", "b", "as",
      "integer", ")", "as", "integer">>
ReturnAddText == <<"return", "add", "(", "a", "b", ")">>
CallText(p, q) == <<"set", "x", "to", "f", "(", p, q, ")">>
Passed == {"-1", "+1", "+2"}
FunAddStatements ==
    <<Plain("Declare", <<"declare", "f", "as", "function">>),
      Block("Assign", FunAddText, <<Plain("Return", ReturnAddText)>>),
      Plain("Declare", <<"declare", "x", "as", "integer">>)>>
CallProgram(p, q) == FunAddStatements \o <<Plain("Assign", CallText(p, q))>>
\* The same call with the variables p and q as the arguments.
CallOfVariables(p, q) ==
    FunAddStatements
      \o <<Plain("Declare", <<"declare", "p", "as", "integer">>),
           Plain("Assign", <<"set", "p", "to", p>>),
           Plain("Declare", <<"declare", "q", "as", "integer">>),
           Plain("Assign", <<"set", "q", "to", q>>),
           Plain("Assign", CallText("p", "q"))>>

\* A counting loop, a text, a call and a number as statements.
LoopProgram ==
    <<Plain("Declare", <<"declare", "i", "as", "whole">>),
      Plain("Assign", <<"set", "i", "to", "0">>),
      Block("While", <<"while", "lt", "(", "i", "2", ")">>,
            <<Plain("Assign", <<"set", "i", "to", "add", "(", "i", "1", ")">>)>>),
      Plain("Text", <<"\"s\"">>),
      Plain("Identifier", <<"add", "(", "1", "2", ")">>),
      Plain("Whole", <<"1">>)>>

MainPrograms ==
    {PushProgram(first, second) : first \in Pushed, second \in Pushed}
      \cup {CallProgram(p, q) : p \in Passed, q \in Passed}
      \cup {CallOfVariables(p, q) : p \in Passed, q \in Passed}
      \cup {LoopProgram}

\* main, from create_parser(tokens) on, for one of these programs.
MainInit ==
    /\ InterpreterIdle
    /\ source \in MainPrograms
    /\ tokens = get_tokens(Words(source))
    /\ parser = create_parser(tokens)
    /\ ast = NewTree
    /\ scope = <<>>
    /\ calls = <<Frame("parse", <<>>, 0)>>
    /\ outcome = "parsing"

\* main, from the tree parse returned to interpreter.interpret().
MainInterpret ==
    /\ outcome = "tree"
    /\ status = "idle"
    /\ interps' = <<Interpreter(ast.nodes, init_memory, <<>>, 1)>>
    /\ ctl' = <<InterpretFrame(1)>>
    /\ result' = NoResult
    /\ status' = "run"
    /\ obs' = NoObs
    /\ UNCHANGED <<family, nmain, parseVars>>

MainNext ==
    \/ ParseNext
    \/ MainInterpret
    \/ IDeclare
    \/ IAssignStart
    \/ IAssignFinish
    \/ IReturnStart
    \/ IReturnFinish
    \/ IWhileStart
    \/ IWhileFinish
    \/ IIdentifier
    \/ IPrinted
    \/ IOther
    \/ InterpretEnd
    \/ EMatch
    \/ EArgument
    \/ EArgumentValue
    \/ EIntrinsic
    \/ ECall
    \/ ECallReturn
    \/ LFirst
    \/ LBody
    \/ LGuard

MainSpec == MainInit /\ [][MainNext]_vars

\* -------------------------------------------------------------- properties
\* A call of a user function returned normally in the last step.
CallReturned == obs.kind = "call" /\ ~Panicked(obs.value)
\* loop_while returned in the last step.
LoopReturned == obs.kind = "loop"
\* An Assign got its value in the last step, and stored it.
Assigned == obs.kind = "assign" /\ obs.ok

\* C1: when a call of a user function returns normally, the caller's Memory
\* is its Memory before the call minus the callee's locals, updated with the
\* callee's assignments: no key is added, only callee locals are removed, and
\* a remaining variable changes only if the callee assigned to it.
C1_CallFrameEffect ==
    CallReturned =>
        /\ DOMAIN obs.after \subseteq DOMAIN obs.before
        /\ (DOMAIN obs.before \ DOMAIN obs.after)
              \subseteq (obs.locals \cup obs.declared)
        /\ \A k \in DOMAIN obs.after \cap DOMAIN obs.before :
              obs.after[k] # obs.before[k] => k \in obs.assigned

\* C2: when a while statement finishes, by its guard or by a propagated
\* return, the enclosing Memory is the sub-interpreter's Memory without the
\* sub-interpreter's locals, and no name declared in the loop body is bound.
C2_LoopLocalsRemoved ==
    LoopReturned =>
        /\ interps[obs.self].memory =
              [k \in DOMAIN obs.sub_memory \ obs.sub_locals |->
                  obs.sub_memory[k]]
        /\ obs.declared \cap DOMAIN interps[obs.self].memory = {}

\* C3: a while loop stops only by a false guard or by a Return statement
\* executed in its body: when no Return executed in the body, loop_while
\* ends by the guard and the statements after the loop are executed.
C3_LoopStopsByGuardOrReturn ==
    (LoopReturned /\ ~obs.returned.set) =>
        /\ obs.how = "guard"
        /\ status = "run"

\* A Return statement has executed in the body of the function of frame.
FrameReturned(frame) ==
    \E j \in 1..Len(interps) :
        interps[j].frame = frame /\ interps[j].returned.set

\* C4: once a Return statement has executed in a function's body, directly
\* or inside while loops, the return slot holds its value, no later
\* statement of the body is executed and the call yields that value.
C4_ReturnEndsFunction ==
    /\ \A j \in 1..Len(interps) :
          (interps[j].frame > 1 /\ interps[j].returned.set) =>
              /\ "return" \in DOMAIN interps[j].memory
              /\ interps[j].memory["return"].value = interps[j].returned.value
    /\ (AtStatement /\ Self.frame > 1) => ~FrameReturned(Self.frame)
    /\ (CallReturned /\ obs.returned.set) => obs.value = obs.returned.value

\* C5: after an Assign that does not fail, the assigned name is bound in the
\* frame's Memory with the data_type it had before the Assign, whatever the
\* value, also when the value is a call that replaced the frame's Memory.
C5_AssignKeepsType ==
    Assigned =>
        /\ obs.name \in DOMAIN interps[obs.self].memory
        /\ interps[obs.self].memory[obs.name].data_type
              = obs.variable.data_type

\* The Assign of the last step evaluated a call that left the frame's Memory
\* without the assigned name.
C5_Witness == Assigned /\ obs.name \notin DOMAIN obs.memory

\* The declared type of the variable of the Assign of the last step, the
\* value the Assign evaluated, and the value the variable holds now.
AssignTo == obs.variable.data_type.name
AssignValue == obs.value
AssignStored == interps[obs.self].memory[obs.name].value

\* The fraction r >= 0 truncated: the natural number t with t <= r < t + 1.
Truncation(r) == CHOOSE t \in 0..r[1] : t * r[2] <= r[1] /\ r[1] < (t + 1) * r[2]
NonNegative(v) ==
    \/ v.tag = "Whole"
    \/ v.tag = "Integer" /\ v.value.isize >= 0
    \/ v.tag = "Float" /\ v.value.f64[1] >= 0
Negative(v) ==
    \/ v.tag = "Integer" /\ v.value.isize < 0
    \/ v.tag = "Float" /\ v.value.f64[1] < 0
Min(a, b) == IF a < b THEN a ELSE b

\* The casts of the matrix that do not involve a Float value.
IntegerCasts ==
    /\ (AssignValue.tag = "Whole" /\ AssignValue.value.usize <= ISIZE_MAX
           /\ AssignTo = "integer")
          => AssignStored = Integer(AssignValue.value.usize)
    /\ (AssignValue.tag = "Whole" /\ AssignValue.value.usize <= ISIZE_MAX
           /\ AssignTo = "float")
          => AssignStored = Float(AssignValue.value.usize, 1)
    /\ (AssignValue.tag = "Integer" /\ AssignValue.value.isize >= 0
           /\ AssignTo = "whole")
          => AssignStored = Whole(AssignValue.value.isize)
    /\ (AssignValue.tag = "Integer" /\ AssignTo = "float")
          => AssignStored = Float(AssignValue.value.isize, 1)
    /\ (ToLowercase(AssignValue.tag) = AssignTo)
          => AssignStored = AssignValue

\* C6, as stated: Assign applies the numeric coercion matrix: Whole to integer
\* and to float (within the signed range), non-negative Integer to whole,
\* Integer to float, a non-negative Float to whole or integer stores its
\* truncation, and a value of the declared type is stored unchanged.
C6_CastMatrix ==
    Assigned =>
        /\ IntegerCasts
        /\ (AssignValue.tag = "Float" /\ NonNegative(AssignValue)
               /\ AssignTo = "whole")
              => AssignStored = Whole(Truncation(AssignValue.value.f64))
        /\ (AssignValue.tag = "Float" /\ NonNegative(AssignValue)
               /\ AssignTo = "integer")
              => AssignStored = Integer(Truncation(AssignValue.value.f64))

\* C6, amended: as C6, but a non-negative Float stores its truncation only
\* when that is in the range of the target type, and the largest value of
\* the target type otherwise.
C6_CastMatrixSaturating ==
    Assigned =>
        /\ IntegerCasts
        /\ (AssignValue.tag = "Float" /\ NonNegative(AssignValue)
               /\ AssignTo = "whole")
              => AssignStored =
                    Whole(Min(Truncation(AssignValue.value.f64), USIZE_MAX))
        /\ (AssignValue.tag = "Float" /\ NonNegative(AssignValue)
               /\ AssignTo = "integer")
              => AssignStored =
                    Integer(Min(Truncation(AssignValue.value.f64), ISIZE_MAX))

\* A Float beyond the range of usize was assigned to a whole variable.
C6_Witness ==
    /\ Assigned
    /\ AssignValue.tag = "Float"
    /\ NonNegative(AssignValue)
    /\ AssignTo = "whole"
    /\ Truncation(AssignValue.value.f64) > USIZE_MAX

Numerics == {"whole", "integer", "float"}
\* The pairs of the coercion matrix.
InMatrix(from, to) == from \in Numerics /\ to \in Numerics /\ from # to

\* C7: an Assign fails and stores nothing when the type tag of the value
\* differs from the declared type and the pair is not a cast of the matrix,
\* and when a negative Integer or Float is assigned to a whole variable.
C7_BadAssignFails ==
    (obs.kind = "assign"
        /\ \/ /\ ToLowercase(AssignValue.tag) # AssignTo
              /\ ~InMatrix(ToLowercase(AssignValue.tag), AssignTo)
           \/ /\ AssignTo = "whole"
              /\ Negative(AssignValue))
    => /\ ~obs.ok
       /\ status = "panic"
       /\ interps[obs.self].memory = obs.memory

\* A negative Integer was assigned to a whole variable.
C7_Witness ==
    /\ obs.kind = "assign"
    /\ AssignValue.tag = "Integer"
    /\ Negative(AssignValue)
    /\ AssignTo = "whole"
    /\ status = "panic"

\* The literal bounds n >= 0 of the counting loop.
Bounds ==
    {Whole(n) : n \in 0..MaxLoop} \cup {Integer(n) : n \in 0..MaxLoop}
        \cup {Float(n, 1) : n \in 0..MaxLoop}
BoundOf(literal) ==
    CASE literal.tag = "Whole" -> literal.value.usize
      [] literal.tag = "Integer" -> literal.value.isize
      [] literal.tag = "Float" -> literal.value.f64[1]
ZeroWhole == Variable(Whole(0), Type("whole"))

\* loop_while was entered at top level for `while lt(i n) { set i to add(i 1) }`
\* with i declared whole and set to 0.
CountingFrom(expression, body, entry, self, literal) ==
    /\ self = 1
    /\ expression = CountTo(literal).nodes[1]
    /\ body = Tail(CountTo(literal).nodes)
    /\ "i" \in DOMAIN entry
    /\ entry["i"] = ZeroWhole

\* The counting loop of bound n is being executed.
Counting(literal) ==
    /\ status = "run"
    /\ \E k \in 1..Len(ctl) :
          /\ ctl[k].fn = "loop_while"
          /\ CountingFrom(ctl[k].expression, interps[ctl[k].sub].tree.nodes,
                          ctl[k].entry, ctl[k].self, literal)

\* The counting loop of bound n ended by its guard after n iterations and
\* the top-level Memory holds i = Whole(n), declared whole.
Counted(literal) ==
    /\ LoopReturned
    /\ CountingFrom(obs.expression, obs.body, obs.entry, obs.self, literal)
    /\ obs.how = "guard"
    /\ obs.iterations = BoundOf(literal)
    /\ "i" \in DOMAIN interps[1].memory
    /\ interps[1].memory["i"] = Variable(Whole(BoundOf(literal)), Type("whole"))

RECURSIVE NodesOf(_)
NodesOf(node) ==
    {node} \cup UNION {NodesOf(node.nodes[k]) : k \in 1..Len(node.nodes)}

\* C8: every Declare node of a tree parse returns has exactly two children,
\* an Identifier and then a Type, for every form of the declare statement.
C8_DeclareChildren ==
    outcome = "tree" =>
        \A node \in NodesOf(ast) :
            node.data.tag = "Declare" =>
                /\ Len(node.nodes) = 2
                /\ node.nodes[1].data.tag = "Identifier"
                /\ node.nodes[2].data.tag = "Type"

\* The variants of the nodes.
Variants(nodes) == [k \in 1..Len(nodes) |-> nodes[k].data.tag]

\* The variants of the children of every While node among the nodes and
\* below them, in the order the nodes are in the tree.
RECURSIVE WhileNodes(_)
WhileNodes(nodes) ==
    IF nodes = <<>> THEN <<>>
    ELSE LET node == Head(nodes)
         IN  (IF node.data.tag = "While" THEN <<Variants(node.nodes)>> ELSE <<>>)
             \o WhileNodes(node.nodes)
             \o WhileNodes(Tail(nodes))

\* For every while statement among the statements and in their bodies, in the
\* order they are written: Expression, then the kinds of the statements
\* written between its braces.
RECURSIVE WhileStatements(_)
WhileStatements(statements) ==
    IF statements = <<>> THEN <<>>
    ELSE LET s == Head(statements)
         IN  (IF s.kind = "While"
              THEN <<<<"Expression">> \o [k \in 1..Len(s.body) |-> s.body[k].kind]>>
              ELSE <<>>)
             \o WhileStatements(s.body)
             \o WhileStatements(Tail(statements))

\* C9: in a tree parse returns, the children of every While node are an
\* Expression and then one node for each statement written between the
\* braces of the while statement, in the order they are written, and no node
\* of a statement written after the closing brace.
C9_WhileChildren ==
    outcome = "tree" => WhileNodes(<<ast>>) = WhileStatements(source)

\* main ran the program to its end.
Finished == outcome = "tree" /\ status = "run" /\ ctl = <<>>
\* main stopped with a panic, in parse or in interpret.
Failed == outcome = "panic" \/ status = "panic"
\* The variable l of the top level holds the list of these integers, with
\* the element types [integer].
HoldsIntegers(values) ==
    /\ "l" \in DOMAIN interps[1].memory
    /\ interps[1].memory["l"] =
         Variable(List(<<Type("integer")>>,
                       [k \in 1..Len(values) |-> Integer(values[k])]),
                  Type("list"))
\* The panic is the one of a push of a value of one of these variants.
PushFailed(tags) ==
    /\ status = "panic"
    /\ obs.kind = "intrinsic"
    /\ obs.body = "push"
    /\ obs.args[2].tag \in tags

\* C11 (as written): for l declared list[integer], `set l to push(l 1)`
\* executed twice succeeds and leaves l = [1, 1] with the element types
\* [integer], while a program that pushes a Text onto l fails.
C11_PushOne ==
    /\ source = PushProgram("1", "1") =>
          /\ ~Failed
          /\ Finished => HoldsIntegers(<<1, 1>>)
    /\ (\E first \in Pushed : source = PushProgram(first, "\"s\"")) =>
          ~Finished

\* C11 (amended): for l declared list[integer], `set l to push(l +1)`
\* executed twice succeeds and leaves l = [1, 1] (Integer values) with the
\* element types [integer]; l holds [1] between the two; a program that
\* pushes the unsigned literal 1 (a Whole) or a Text onto l panics in that
\* push and never ends.
C11_PushSigned ==
    /\ source = PushProgram("+1", "+1") =>
          /\ ~Failed
          /\ (Assigned /\ ctl[1].pc = 3) => HoldsIntegers(<<1>>)
          /\ Finished => HoldsIntegers(<<1, 1>>)
    /\ \A first, second \in Pushed :
          (source = PushProgram(first, second)
             /\ (first # "+1" \/ second # "+1")) =>
            /\ ~Finished
            /\ Failed => /\ PushFailed({"Whole", "Text"})
                         /\ obs.args[1].data_types = <<Type("integer")>>
                         /\ first = "+1" => HoldsIntegers(<<1>>)

\* The two pushes of +1 ended, and l holds [1, 1].
C11_Witness ==
    /\ source = PushProgram("+1", "+1")
    /\ Finished
    /\ HoldsIntegers(<<1, 1>>)
    /\ interps[1].memory["l"].value.value = <<Integer(1), Integer(1)>>

\* The Assign node of `set f to fun(a as integer b as integer) as integer
\* { return add(a b) }`.
FunAddNode ==
    AssignStmt("f",
               FunLiteral(<<"a", "b">>, <<"integer", "integer">>, "integer",
                          <<ReturnStmt(Call("add", <<Ref("a"), Ref("b")>>))>>))
\* The program assigns f and then calls it with the integers p and q, as
\* literals or as the values of two variables.
CallsWith(p, q) == source \in {CallProgram(p, q), CallOfVariables(p, q)}

\* C12: for `fun(a as integer b as integer) as integer { return add(a b) }`
\* assigned to f, the parser builds a FunctionContainer with params [a, b],
\* param_types [integer, integer] and a body holding the Return statement;
\* `set x to f(p q)` on an integer x binds a to p and b to q, gets the Float
\* p + q from the call and stores Integer(p + q) in x.
C12_FunctionOfTwo ==
    \A p, q \in Passed :
      CallsWith(p, q) =>
        /\ ~Failed
        /\ outcome = "tree" =>
              /\ Len(ast.nodes) >= 2
              /\ [ast.nodes[2] EXCEPT !.id = 0] = FunAddNode
        /\ obs.kind = "enter" =>
              /\ obs.function.params = <<"a", "b">>
              /\ obs.args = <<Integer(ParseIsize[p]), Integer(ParseIsize[q])>>
              /\ obs.memory["a"] =
                   Variable(Integer(ParseIsize[p]), Type("integer"))
              /\ obs.memory["b"] =
                   Variable(Integer(ParseIsize[q]), Type("integer"))
        /\ (Assigned /\ obs.name = "x") =>
              /\ obs.value = Float(ParseIsize[p] + ParseIsize[q], 1)
              /\ interps[1].memory["x"] =
                   Variable(Integer(ParseIsize[p] + ParseIsize[q]),
                            Type("integer"))
        /\ Finished =>
              interps[1].memory["x"] =
                Variable(Integer(ParseIsize[p] + ParseIsize[q]),
                         Type("integer"))

\* f(+1 +2) was called and x holds Integer(3) at the end of the program.
C12_Witness ==
    /\ source = CallProgram("+1", "+2")
    /\ Finished
    /\ interps[1].memory["x"] = Variable(Integer(3), Type("integer"))
    /\ interps[1].memory["f"].value.tag = "Function"

\* An intrinsic was applied in the last step (and returned or panicked).
Applied(body) == obs.kind = "intrinsic" /\ obs.body = body
\* No argument of the call is itself a call: each is a literal or a variable
\* that holds no function.
PlainArguments ==
    \A k \in 1..Len(obs.expression.nodes[1].nodes) :
       LET x == obs.expression.nodes[1].nodes[k] IN
       x.data.tag = "Identifier" =>
         /\ x.data.name \in DOMAIN obs.before
         /\ obs.before[x.data.name].value.tag
              \notin {"Function", "KraberFunction"}

\* C13: push is pure: the evaluation of push(L, x), for arguments that are
\* literals or variables, leaves every Memory entry (L's among them) as it
\* was when the evaluation began, and when it succeeds the returned List has
\* the data_types of L and the elements of L in order followed by x.
C13_PushPure ==
    Applied("push") =>
      /\ interps[obs.self].memory = obs.memory
      /\ PlainArguments => obs.memory = obs.before
      /\ ~Panicked(obs.value) =>
            /\ obs.value.tag = "List"
            /\ obs.value.data_types = obs.args[1].data_types
            /\ obs.value.value = obs.args[1].value \o <<obs.args[2]>>

\* push(l x) returned for a variable l that holds a list with an element,
\* and l still holds that list.
C13_Witness ==
    /\ Applied("push")
    /\ ~Panicked(obs.value)
    /\ PlainArguments
    /\ Len(obs.args[1].value) >= 1
    /\ obs.expression.nodes[1].nodes[1].data = Identifier("l")
    /\ interps[obs.self].memory["l"].value = obs.args[1]
    /\ obs.value # obs.args[1]

\* The product of the numeric arguments from the k-th on.
RECURSIVE ProductFrom(_, _)
ProductFrom(args, k) ==
    IF k > Len(args) THEN <<1, 1>>
    ELSE FMul(expect_numeric(args[k]), ProductFrom(args, k + 1))
AllNumericFrom(args, k) == \A j \in k..Len(args) : IsNumeric(args[j])

\* C14: multiply(xs) with a Text first argument (the empty text included)
\* returns that text repeated by the product of the remaining numeric
\* arguments truncated to unsigned; with another first argument it returns
\* the Float product of all its arguments, which must all be numeric.
C14_Multiply ==
    (Applied("multiply") /\ Len(obs.args) >= 1) =>
      IF obs.args[1].tag = "Text"
      THEN AllNumericFrom(obs.args, 2) =>
             obs.value =
               Text(Repeat(obs.args[1].value.string,
                           FloatAsUsize(ProductFrom(obs.args, 2))))
      ELSE IF AllNumericFrom(obs.args, 1)
           THEN obs.value = FloatOf(ProductFrom(obs.args, 1))
           ELSE Panicked(obs.value)

\* C15: binding a parameter, or declaring a variable inside a function or
\* loop body, never changes or removes a binding of the caller: a variable
\* of the caller with the name of a callee parameter, or of a variable
\* declared in the sub-frame, exists after the sub-frame with the value and
\* the declared type it had before.
C15_CallerBindingsKept ==
    /\ CallReturned =>
          \A k \in DOMAIN obs.before \cap (obs.locals \cup obs.declared) :
             /\ k \in DOMAIN obs.after
             /\ obs.after[k] = obs.before[k]
    /\ LoopReturned =>
          \A k \in DOMAIN obs.entry \cap (obs.sub_locals \cup obs.declared) :
             /\ k \in DOMAIN interps[obs.self].memory
             /\ interps[obs.self].memory[k] = obs.entry[k]

\* A Return statement executed in the last step, in the body of a function.
ReturnedIn == obs.kind = "return" /\ obs.function.tag = "Function"

\* C16: after a Return statement executes in a function frame, the frame's
\* "return" variable has the return type the literal of the function being
\* executed declares, whatever other user functions were called before in
\* the frame or in the returned expression.
C16_ReturnSlotType ==
    ReturnedIn => obs.variable.data_type = obs.function.return_types[1]

\* C20: a call of a user function whose body executes no Return statement
\* yields Null: the "return" slot of the frame is Null on entry and only a
\* Return executed in the frame changes its value, also when the body calls
\* other user functions that return values.
C20_NoReturnYieldsNull ==
    /\ obs.kind = "enter" => obs.memory["return"].value = Null
    /\ (CallReturned /\ ~obs.returned.set) => obs.value = Null

\* The statements a sequence of nodes stands for: the variant of each node
\* and, for a While and for an Assign of a function literal, the statements
\* of the body.
RECURSIVE TreeShape(_)
TreeShape(nodes) ==
    [k \in 1..Len(nodes) |->
       LET node == nodes[k] IN
       [kind |-> node.data.tag,
        body |-> IF node.data.tag = "While" /\ Len(node.nodes) >= 1
                 THEN TreeShape(Tail(node.nodes))
                 ELSE IF /\ node.data.tag = "Assign"
                         /\ Len(node.nodes) = 2
                         /\ node.nodes[2].data.tag = "FunctionContainer"
                 THEN TreeShape(node.nodes[2].nodes)
                 ELSE <<>>]]

\* The statements of a program text, as they are written.
RECURSIVE SourceShape(_)
SourceShape(statements) ==
    [k \in 1..Len(statements) |->
       [kind |-> statements[k].kind,
        body |-> SourceShape(statements[k].body)]]

\* C17: scope-path pushes and pops are balanced: each time build_tree returns
\* to the loop of parse the scope path is empty, so in the tree parse
\* returns every statement written at top level is a child of the root and
\* every statement written in a while body or a function body is a child of
\* that container.
C17_ScopeBalanced ==
    /\ (In("parse", "start") \/ In("parse", "step")) => scope = <<>>
    /\ outcome = "tree" => TreeShape(ast.nodes) = SourceShape(source)

\* The values of the tokens k, k + 1, ... are these words.
TokensAt(k, words) ==
    /\ k + Len(words) - 1 <= Len(tokens)
    /\ \A j \in 1..Len(words) : tokens[k + j - 1].value = words[j]
\* The program text has, as a statement of its own, a `set <REF>` that no
\* `to` follows, or a `set <REF> to fun` that no parameter list follows.
HasUnvalued ==
    \E before, after \in Programs(1), s \in Unvalued :
       /\ source = before \o <<s>> \o after
       /\ LET k == Len(Words(before)) + Len(s.text) + 1 IN
          ~TokensAt(k, IF s = SetWithoutTo THEN <<"to">> ELSE <<"(">>)

\* C18: every Assign node of a tree parse returns has exactly two children,
\* an Identifier and then a value node (an expression root or a
\* FunctionContainer), and parse fails on a `set <REF>` without `to` and on a
\* `set <REF> to fun` without a parameter list.
C18_AssignChildren ==
    /\ outcome = "tree" =>
          \A node \in NodesOf(ast) :
             node.data.tag = "Assign" =>
               /\ Len(node.nodes) = 2
               /\ node.nodes[1].data.tag = "Identifier"
               /\ node.nodes[2].data.tag \in
                    {"Identifier", "Whole", "Integer", "Float", "Boolean",
                     "Text", "FunctionContainer"}
    /\ HasUnvalued => outcome # "tree"

\* The number of tokens of the value among the first k tokens.
RECURSIVE Count(_, _)
Count(value, k) ==
    IF k = 0 THEN 0
    ELSE Count(value, k - 1) + (IF tokens[k].value = value THEN 1 ELSE 0)
\* More brackets of a kind are opened in the token stream than are closed.
OpenAtEnd ==
    \E pair \in {<<"(", ")">>, <<"[", "]">>, <<"{", "}">>} :
       Count(pair[1], Len(tokens)) > Count(pair[2], Len(tokens))

\* C19: parse fails (returns no tree) for every token stream in which a
\* bracket of a call, of a list type, of a parameter list, of a function
\* body or of a while body is opened and not closed before the end.
C19_UnclosedFails == OpenAtEnd => outcome # "tree"

\* The variable was declared with the type list.
ListVariable(variable) == variable.data_type = Type("list")
\* The variable holds a List whose elements all have a type tag that is among
\* the data_types of the List.
HoldsTypedList(variable) ==
    /\ variable.value.tag = "List"
    /\ \A k \in 1..Len(variable.value.value) :
          stringify_enum(variable.value.value[k])
            \in {variable.value.data_types[j].name
                   : j \in 1..Len(variable.value.data_types)}
\* The step is the Declare statement of the name, at the top level.
DeclaresNow(name) ==
    /\ AtStatement
    /\ Top.self = 1
    /\ CurNode.data.tag = "Declare"
    /\ Len(CurNode.nodes) >= 2
    /\ CurNode.nodes[1].data = Identifier(name)
\* The element types the Declare statement gives.
ElementsDeclared ==
    [k \in 1..Len(CurNode.nodes[2].nodes) |-> CurNode.nodes[2].nodes[k].data]

\* One step keeps the lists of the top level as they were declared: a list
\* variable holds a well-typed List; the Declare of it gives it the empty List
\* of the element types of the statement; no other step makes a list variable
\* or changes the data_types of one.
ListsKept ==
    (interps # <<>> /\ interps' # <<>>) =>
      \A name \in DOMAIN interps'[1].memory :
         LET new == interps'[1].memory[name] IN
         ListVariable(new) =>
           /\ HoldsTypedList(new)
           /\ IF DeclaresNow(name)
              THEN new.value = List(ElementsDeclared, <<>>)
              ELSE /\ name \in DOMAIN interps[1].memory
                   /\ ListVariable(interps[1].memory[name])
                   /\ interps[1].memory[name].value.data_types
                        = new.value.data_types

\* C21: after any sequence of Declare statements, Assign statements and push
\* calls, every variable declared with the type list holds a List whose
\* data_types are the element types of its declaration and whose elements
\* all have a type tag among those data_types: the Declare establishes it
\* and every later step keeps it.
C21_ListInvariant == [][ListsKept]_vars

\* Two values were pushed onto a list l declared with two element types.
C21_Witness ==
    /\ family = "push"
    /\ "l" \in DOMAIN interps[1].memory
    /\ ListVariable(interps[1].memory["l"])
    /\ HoldsTypedList(interps[1].memory["l"])
    /\ Len(interps[1].memory["l"].value.data_types) = 2
    /\ Len(interps[1].memory["l"].value.value) = 2

\* parse returned a tree or failed.
ParseEnded == outcome \in {"tree", "panic"}
\* The step is the return of a call of build_tree or build_expression.
CallReturns ==
    /\ outcome = "parsing"
    /\ calls # <<>>
    /\ TopCall.fn \in {"build_tree", "build_expression"}
    /\ outcome' = "parsing"
    /\ calls' = PopCall
\* The step is the self.step() that ends an iteration of the loop of parse.
LoopAdvances == In("parse", "step") /\ outcome' = "parsing"
\* A call leaves the cursor at or after the index it was entered at, and an
\* iteration of the loop of parse ends one token after the index the call of
\* build_tree left.
CursorForward ==
    /\ CallReturns => parser'.index >= TopCall.entry
    /\ LoopAdvances => parser'.index = parser.index + 1

\* C22: parse terminates, with a tree or with a failure, on every non-empty
\* token sequence: every call of build_tree and of build_expression leaves
\* the cursor at an index not smaller than the one it was entered at, back()
\* notwithstanding, and the loop of parse advances the cursor by one in
\* every iteration.
C22_ParseTerminates == [][CursorForward]_vars /\ <>ParseEnded

\* build_expression has returned to build_tree after the back() that follows
\* the arguments of a call: the cursor is on the closing bracket, after the
\* index at which build_tree was entered.
C22_Witness ==
    /\ In("build_tree", "leave")
    /\ parser.token.value = ")"
    /\ parser.index > TopCall.entry
    /\ ~parser.end

====
